---- MODULE Spec2Model ----
(***************************************************************************)
(* Crypto_News_Analyzer.py: the deduplication history, the batch analysis  *)
(* and the run orchestration of CryptoNewsAnalyzer, as a state machine.    *)
(*                                                                         *)
(* Strings are sequences of tokens: a link is the sequence of its parts    *)
(* (scheme+host, path segments, "/" for a trailing slash, "?..." for the   *)
(* query, "#..." for the fragment).  The clock counts seconds and advances *)
(* in steps of TickSeconds between runs.                                   *)
(***************************************************************************)
EXTENDS Integers, Sequences, FiniteSets, TLC

\* ------------------------------------------------------------------ bounds

\* The clock stops advancing after MaxTicks steps of TickSeconds.
MaxTicks == 2

\* ------------------------------------------------------- program constants

\* 7 * 24 * 60 * 60 in _load_history
RetentionSeconds == 604800

\* batch_size in analyze_with_gemini
batch_size == 5

\* response_text[:200] in analyze_with_gemini
ExplanationLimit == 200

\* random.randint(1, 3) in run_workflow
MinPosts == 1

\* Mutant of the upper end of randint: up to 4 posts.
MaxPosts_one_more == 3 + 1

MaxPosts == 3

\* One clock step, in seconds: half the retention window, so that ages of
\* 0, 1/2, 1 and 3/2 retention windows all occur.
TickSeconds == RetentionSeconds \div 2

\* ------------------------------------------------------------ python values

PyNone == "None"
PyTrue == "True"
PyFalse == "False"

\* Python truthiness of the values is_opportunity can hold.
Truthy(v) == v \notin {PyFalse, PyNone, "unset"}

Min(a, b) == IF a < b THEN a ELSE b

\* ------------------------------------------------------------------- links

Host == "https://x.com"
BadHost == "https://[x"
Slash == "/"
QueryTok == "?x=1"
FragTok == "#y"

LinkNone == << >>
LinkA == <<Host, "/a">>
LinkAQuery == <<Host, "/a", QueryTok, FragTok>>
LinkASlash == <<Host, "/a", Slash>>
LinkB == <<Host, "/b">>
LinkC == <<Host, "/c">>
LinkD == <<Host, "/d">>
LinkBad == <<BadHost, "/a">>

\* urlsplit raises ValueError("Invalid IPv6 URL") on an unbalanced bracket
\* in the netloc.
UrlparseRaises(url) == \E i \in 1..Len(url) : url[i] = BadHost

\* Index of the first query or fragment token, Len+1 when there is none.
RECURSIVE FirstCut(_, _)
FirstCut(url, i) ==
    IF i > Len(url) THEN i
    ELSE IF url[i] \in {QueryTok, FragTok} THEN i
    ELSE FirstCut(url, i + 1)

\* str.rstrip('/')
RECURSIVE RStripSlash(_)
RStripSlash(s) ==
    IF Len(s) > 0 /\ s[Len(s)] = Slash THEN RStripSlash(SubSeq(s, 1, Len(s) - 1))
    ELSE s

\* Mutant of _normalize_url: the trailing slashes are kept.
normalize_url_keeps_slash(url) == SubSeq(url, 1, FirstCut(url, 1) - 1)

\* _normalize_url: scheme, netloc and path only, then rstrip('/').
normalize_url(url) == RStripSlash(SubSeq(url, 1, FirstCut(url, 1) - 1))

\* hashlib.md5(...).hexdigest(): a digest is determined by, and here stands
\* for, the string hashed.
md5(s) == <<"md5">> \o s

\* f"{title}|{link}", the string _generate_news_hash hashes
news_content(item) == <<item.title, "|">> \o item.link

\* _generate_news_hash: md5 of title + "|" + link
generate_news_hash(item) == md5(news_content(item))

\* The None that _generate_url_hash returns for an empty link (no digest is
\* empty).
HashNone == << >>

\* _generate_url_hash: None for an empty link, else md5 of the normalized link
generate_url_hash(item) ==
    IF item.link = << >> THEN HashNone ELSE md5(normalize_url(item.link))

\* --------------------------------------------------------- written links

\* A link is written from the parts urlparse takes it apart into: scheme and
\* netloc, the path, trailing slashes of the path, the query, the fragment.
HostHttp == "http://x.com"
HostY == "https://y.com"
HostYHttp == "http://y.com"

\* The most trailing slashes a written link has.
MaxSlashes == 2

Schemes == {"https", "http"}
Hosts == {"x.com", "y.com"}
Paths == {<< >>, <<"/a">>, <<"/b">>}

SchemeHost(scheme, host) ==
    IF scheme = "https"
    THEN (IF host = "x.com" THEN Host ELSE HostY)
    ELSE (IF host = "x.com" THEN HostHttp ELSE HostYHttp)

\* An entry without a link: entry.get('link', '')
NoUrl == [scheme |-> "", host |-> "", path |-> << >>, slashes |-> 0,
          query |-> FALSE, fragment |-> FALSE]

Urls ==
    {NoUrl} \cup [scheme : Schemes, host : Hosts, path : Paths, slashes : 0..MaxSlashes,
                  query : BOOLEAN, fragment : BOOLEAN]

\* The link as the feed writes it.
UrlString(u) ==
    IF u = NoUrl THEN LinkNone
    ELSE <<SchemeHost(u.scheme, u.host)>> \o u.path \o [k \in 1..u.slashes |-> Slash]
         \o (IF u.query THEN <<QueryTok>> ELSE << >>)
         \o (IF u.fragment THEN <<FragTok>> ELSE << >>)

\* ------------------------------------------------------------------- items

\* What the collectors build: 'source', 'title' and 'link' of an article.
Item(src, t, l) == [source |-> src, title |-> t, link |-> l]

ItemA == Item("CoinDesk", "T1", LinkA)
\* the story of ItemA syndicated by another feed: other title, tracking query
ItemA2 == Item("NewsBTC", "T2", LinkAQuery)
ItemB == Item("CoinDesk", "T3", LinkB)
ItemC == Item("CryptoSlate", "T4", LinkC)
ItemD == Item("The Block", "T5", LinkD)
ItemASlash == Item("CoinTelegraph", "T6", LinkASlash)
ItemNoLink == Item("CoinTelegraph", "T7", LinkNone)
ItemBad == Item("NewsBTC", "T8", LinkBad)

\* What one run can collect (merge_sources of the three fetches).
FeedLists ==
    { << >>,
      <<ItemA>>,
      <<ItemA, ItemA2>>,
      <<ItemB, ItemNoLink>>,
      <<ItemA, ItemBad>>,
      <<ItemA, ItemB, ItemC, ItemD, ItemNoLink, ItemA2, ItemASlash>> }

\* ----------------------------------------------------------- configuration

\* What __init__ reads from the environment and from prompts.json:
\* GEMINI_API_KEY set or not, both Telegram credentials set or not, and
\* whether every entry of prompts.json has its 'prompt' and 'emoji' keys and
\* a template str.format accepts.
Configs ==
    { [gemini_api_key |-> TRUE, telegram |-> TRUE, prompts_ok |-> TRUE],
      [gemini_api_key |-> FALSE, telegram |-> TRUE, prompts_ok |-> TRUE],
      [gemini_api_key |-> TRUE, telegram |-> FALSE, prompts_ok |-> TRUE],
      [gemini_api_key |-> TRUE, telegram |-> TRUE, prompts_ok |-> FALSE] }

\* ----------------------------------------------------------------- history

\* {} : a dict with no key
EmptyDict == [k \in {} |-> 0]

\* d[k] = v
DictSet(d, k, v) == [x \in DOMAIN d \cup {k} |-> IF x = k THEN v ELSE d[x]]

\* sent_news_history.json: missing, not loadable as a JSON object of numbers
\* (empty, partly written), or a JSON object.
FileAbsent == [state |-> "absent", data |-> EmptyDict]
FileCorrupt == [state |-> "corrupt", data |-> EmptyDict]
FileOk(d) == [state |-> "ok", data |-> d]

\* Mutant of the dict comprehension: an entry exactly 7 days old is kept.
cleaned_history_inclusive(h, current_time) ==
    [k \in {x \in DOMAIN h : current_time - h[x] <= RetentionSeconds} |-> h[k]]

\* The dict comprehension of _load_history: the entries younger than 7 days.
cleaned_history(h, current_time) ==
    [k \in {x \in DOMAIN h : current_time - h[x] < RetentionSeconds} |-> h[k]]

\* _load_history: {} when the file is missing, {} when reading it raises,
\* else the cleaned history.
load_history(f, current_time) ==
    IF f.state = "ok" THEN cleaned_history(f.data, current_time) ELSE EmptyDict

\* _is_duplicate: "dup", "new", or "raise" when urlparse raises ValueError.
\* The title+link hash is looked up first; the URL hash only when that misses.
is_duplicate(item, h) ==
    IF generate_news_hash(item) \in DOMAIN h THEN "dup"
    ELSE IF item.link = << >> THEN "new"
    ELSE IF UrlparseRaises(item.link) THEN "raise"
    ELSE IF generate_url_hash(item) \in DOMAIN h THEN "dup"
    ELSE "new"

\* Mutant of _mark_as_analyzed: the URL hash is not stored.
mark_as_analyzed_news_hash_only(h, item, t) == DictSet(h, generate_news_hash(item), t)

\* _mark_as_analyzed: both hashes get time.time().
mark_as_analyzed(h, item, t) ==
    LET h1 == DictSet(h, generate_news_hash(item), t)
    IN  IF generate_url_hash(item) # HashNone
        THEN DictSet(h1, generate_url_hash(item), t)
        ELSE h1

\* Mutant of the marking loop: it marks every collected item, analysed or not.
RECURSIVE mark_from(_, _, _, _)
mark_from(h, items, i, t) ==
    IF i > Len(items) THEN h
    ELSE mark_from(mark_as_analyzed(h, items[i], t), items, i + 1, t)

mark_all_collected(h, items, idxs, t) == mark_from(h, items, 1, t)

\* for item in analyzed_items: self._mark_as_analyzed(item)
RECURSIVE mark_all(_, _, _, _)
mark_all(h, items, idxs, t) ==
    IF idxs = << >> THEN h
    ELSE mark_all(mark_as_analyzed(h, items[Head(idxs)], t), items, Tail(idxs), t)

\* ---------------------------------------------------------------- analysis

\* The 'ai_analysis' and 'is_opportunity' keys of an item dict.  kind is
\* "unset" (key absent), "none" (None), "dict" (a JSON object), "degraded"
\* ({'explanation': response_text[:200]}) or "other" (a JSON value that is no
\* object); explanation is the length of the explanation text.
Analysis(k, n) == [kind |-> k, explanation |-> n]
ItemState(a, o) == [ai_analysis |-> a, is_opportunity |-> o]
Fresh == ItemState(Analysis("unset", 0), "unset")
Failed == ItemState(Analysis("none", 0), PyFalse)

\* A JSON value under item_k: an object with is_opportunity true, false,
\* absent or the string "false", or a value that is no object (a string).
Verdict(k, o) == [kind |-> k, is_opportunity |-> o]
VTrue == Verdict("dict", PyTrue)
VFalse == Verdict("dict", PyFalse)
VNoField == Verdict("dict", "absent")
VStrFalse == Verdict("dict", "'false'")
VNotDict == Verdict("other", "absent")

\* item_analysis.get('is_opportunity', False)
get_is_opportunity(v) == IF v.is_opportunity = "absent" THEN PyFalse ELSE v.is_opportunity

\* What one generate_content call gives: the call raises; response.text
\* is no JSON (of len characters after the code fence is stripped); it is
\* JSON but a number; or it is a JSON object, its item_k keys mapped to values.
Response(k, n, a) == [kind |-> k, len |-> n, analysis |-> a]
Responses ==
    { Response("raise", 0, << >>),
      Response("text", 150, << >>),
      Response("text", 250, << >>),
      Response("json_number", 2, << >>),
      Response("json", 0, <<VFalse, VFalse, VFalse, VFalse, VFalse>>),
      Response("json", 0, <<VTrue, VFalse, VNoField, VStrFalse, VFalse>>),
      Response("json", 0, <<VFalse, VTrue, VTrue, VTrue, VTrue>>),
      Response("json", 0, <<VTrue, VNotDict, VTrue, VFalse, VFalse>>),
      Response("json", 0, <<VFalse>>) }

\* The except-Exception branch of a batch (and the call raising): every item
\* of the batch gets ai_analysis None, is_opportunity False and is appended.
RECURSIVE fail_batch(_, _, _)
fail_batch(st, out, batch) ==
    IF batch = << >> THEN [st |-> st, out |-> out]
    ELSE fail_batch([st EXCEPT ![Head(batch)] = Failed],
                    Append(out, Head(batch)), Tail(batch))

\* Mutant of the except-JSONDecodeError branch: the whole text is kept.
RECURSIVE degrade_batch_untruncated(_, _, _, _)
degrade_batch_untruncated(st, out, batch, n) ==
    IF batch = << >> THEN [st |-> st, out |-> out]
    ELSE degrade_batch_untruncated(
            [st EXCEPT ![Head(batch)] = ItemState(Analysis("degraded", n), PyFalse)],
            Append(out, Head(batch)), Tail(batch), n)

\* The except-JSONDecodeError branch: every item gets the truncated text.
RECURSIVE degrade_batch(_, _, _, _)
degrade_batch(st, out, batch, n) ==
    IF batch = << >> THEN [st |-> st, out |-> out]
    ELSE degrade_batch(
            [st EXCEPT ![Head(batch)] =
                ItemState(Analysis("degraded", Min(n, ExplanationLimit)), PyFalse)],
            Append(out, Head(batch)), Tail(batch), n)

\* The loop matching analysis results with items, from batch position idx on.
\* A value that is no object is stored as ai_analysis, and its .get raises
\* AttributeError: the loop stops there with what it has appended so far.
RECURSIVE match_results(_, _, _, _, _)
match_results(st, out, batch, analysis, idx) ==
    IF idx > Len(batch) THEN [st |-> st, out |-> out, raised |-> FALSE]
    ELSE IF idx \in DOMAIN analysis
    THEN IF analysis[idx].kind = "dict"
         THEN match_results(
                [st EXCEPT ![batch[idx]] =
                    ItemState(Analysis("dict", 0), get_is_opportunity(analysis[idx]))],
                Append(out, batch[idx]), batch, analysis, idx + 1)
         ELSE [st |-> [st EXCEPT ![batch[idx]].ai_analysis = Analysis("other", 0)],
               out |-> out, raised |-> TRUE]
    ELSE match_results([st EXCEPT ![batch[idx]] = Failed],
                       Append(out, batch[idx]), batch, analysis, idx + 1)

\* Mutant of the batch iteration: a failed call leaves its batch out.
analyze_batch_skip_failed(st, out, batch, r) ==
    IF r.kind = "raise" THEN [st |-> st, out |-> out]
    ELSE IF r.kind = "text" THEN degrade_batch(st, out, batch, r.len)
    ELSE IF r.kind = "json_number" THEN fail_batch(st, out, batch)
    ELSE LET m == match_results(st, out, batch, r.analysis, 1)
         IN  IF m.raised THEN fail_batch(m.st, m.out, batch)
             ELSE [st |-> m.st, out |-> m.out]

\* One iteration of the batch loop of analyze_with_gemini, after the call:
\* the item states and analyzed_items it leaves.
analyze_batch(st, out, batch, r) ==
    IF r.kind = "raise" THEN fail_batch(st, out, batch)
    ELSE IF r.kind = "text" THEN degrade_batch(st, out, batch, r.len)
    ELSE IF r.kind = "json_number" THEN fail_batch(st, out, batch)
    ELSE LET m == match_results(st, out, batch, r.analysis, 1)
         IN  IF m.raised THEN fail_batch(m.st, m.out, batch)
             ELSE [st |-> m.st, out |-> m.out]

\* filter_opportunities: the items whose is_opportunity is truthy, in order.
RECURSIVE filter_opportunities(_, _)
filter_opportunities(st, items) ==
    IF items = << >> THEN << >>
    ELSE IF Truthy(st[Head(items)].is_opportunity)
         THEN <<Head(items)>> \o filter_opportunities(st, Tail(items))
         ELSE filter_opportunities(st, Tail(items))

\* random.sample(population, k): the k-sequences of distinct positions.
RECURSIVE Samples(_, _)
Samples(positions, k) ==
    IF k = 0 THEN {<< >>}
    ELSE UNION { { <<p>> \o s : s \in Samples(positions \ {p}, k - 1) } : p \in positions }

\* -------------------------------------------------------------------- state

VARIABLES
    now,                    \* time.time(), in seconds
    config,                 \* the credentials and prompts read by __init__
    pc,                     \* where the process is: "idle" in main's loop,
                            \* a step of run_workflow, or "dead"
    sent_news_hashes,       \* self.sent_news_hashes
    history_file,           \* sent_news_history.json on disk
    all_items,              \* run_workflow's all_items
    item_state,             \* the keys analysis adds to each item of all_items
    new_items,              \* new_items, as positions in all_items
    analyzed_items,         \* analyzed_items, as positions in all_items
    batch_i,                \* i of the batch loop
    selected_opportunities, \* selected_opportunities, as positions
    telegram_attempts,      \* the deliveries send_to_telegram tried, in order
    ret,                    \* how the last run_workflow ended
    submitted,              \* the items given to generate_content in this run
    prev_submitted,         \* and in the run before it, in this process
    file_before_save,       \* the file as it was when _save_history began
    call_log,               \* what each generate_content call of this run gave
    stopped_before_analysis,\* the new items of the last run that it stopped
                            \* before analysing
    fp_in,                  \* two (title, link) inputs of the fingerprint functions
    fp_out                  \* and what the functions gave for each

vars == <<now, config, pc, sent_news_hashes, history_file, all_items, item_state,
          new_items, analyzed_items, batch_i, selected_opportunities,
          telegram_attempts, ret, submitted, prev_submitted, file_before_save,
          call_log, stopped_before_analysis, fp_in, fp_out>>

fp_vars == <<fp_in, fp_out>>

run_locals == <<all_items, item_state, new_items, analyzed_items, batch_i,
                selected_opportunities, telegram_attempts, call_log>>

\* The locals of run_workflow are gone when it returns.
DropLocals ==
    /\ all_items' = << >>
    /\ item_state' = << >>
    /\ new_items' = << >>
    /\ analyzed_items' = << >>
    /\ batch_i' = 0
    /\ selected_opportunities' = << >>
    /\ telegram_attempts' = << >>
    /\ call_log' = << >>

\* main: the constructor has run (no history file yet), the loop is entered.
Init ==
    /\ now = 0
    /\ config \in Configs
    /\ pc = "idle"
    /\ history_file = FileAbsent
    /\ sent_news_hashes = load_history(FileAbsent, 0)
    /\ all_items = << >>
    /\ item_state = << >>
    /\ new_items = << >>
    /\ analyzed_items = << >>
    /\ batch_i = 0
    /\ selected_opportunities = << >>
    /\ telegram_attempts = << >>
    /\ ret = "none"
    /\ submitted = {}
    /\ prev_submitted = {}
    /\ file_before_save = FileAbsent
    /\ call_log = << >>
    /\ stopped_before_analysis = {}
    /\ fp_in = << >>
    /\ fp_out = << >>

\* Mutant of the except clause: the error leaves run_workflow and main.
workflow_error_pc_escapes == "dead"

\* Where the except clause of run_workflow leaves the process: the error is
\* printed and run_workflow returns to main's loop.
workflow_error_pc == "idle"

\* except Exception as e: ... traceback.print_exc()
WorkflowError ==
    /\ pc' = workflow_error_pc
    /\ ret' = "error"
    /\ DropLocals

\* return from run_workflow
Return(how) ==
    /\ pc' = "idle"
    /\ ret' = how
    /\ DropLocals

\* main: analyzer.run_workflow(), at once and then from schedule.run_pending()
RunPending ==
    /\ pc = "idle"
    /\ pc' = "collect"
    /\ prev_submitted' = submitted
    /\ submitted' = {}
    /\ UNCHANGED <<now, config, sent_news_hashes, history_file, run_locals, ret,
                   file_before_save, stopped_before_analysis>>
    /\ UNCHANGED fp_vars

\* Steps 1 and 2: the three fetches and merge_sources; no item, return.
Collect ==
    /\ pc = "collect"
    /\ \E feed \in FeedLists :
        IF feed = << >>
        THEN /\ Return("no_items")
             /\ stopped_before_analysis' = {}
        ELSE /\ all_items' = feed
             /\ item_state' = [i \in 1..Len(feed) |-> Fresh]
             /\ pc' = "dedup"
             /\ UNCHANGED <<new_items, analyzed_items, batch_i, selected_opportunities,
                            telegram_attempts, call_log, ret, stopped_before_analysis>>
    /\ UNCHANGED <<now, config, sent_news_hashes, history_file, submitted,
                   prev_submitted, file_before_save>>
    /\ UNCHANGED fp_vars

\* The positions of items that _is_duplicate says are not duplicates.
RECURSIVE not_duplicates(_, _, _)
not_duplicates(items, h, i) ==
    IF i > Len(items) THEN << >>
    ELSE IF is_duplicate(items[i], h) = "new"
         THEN <<i>> \o not_duplicates(items, h, i + 1)
         ELSE not_duplicates(items, h, i + 1)

\* filter_duplicates: the new items, or "raise" when _is_duplicate raises.
filter_duplicates(items, h) ==
    IF \E i \in 1..Len(items) : is_duplicate(items[i], h) = "raise"
    THEN [raised |-> TRUE, new_items |-> << >>]
    ELSE [raised |-> FALSE, new_items |-> not_duplicates(items, h, 1)]

\* Step 3: filter_duplicates; no new item, return.
FilterDuplicates ==
    /\ pc = "dedup"
    /\ LET r == filter_duplicates(all_items, sent_news_hashes)
       IN  IF r.raised
           THEN /\ WorkflowError
                /\ stopped_before_analysis' = {}
           ELSE IF r.new_items = << >>
           THEN /\ Return("all_duplicates")
                /\ stopped_before_analysis' = {}
           ELSE /\ new_items' = r.new_items
                /\ pc' = "analyze"
                /\ UNCHANGED <<all_items, item_state, analyzed_items, batch_i,
                               selected_opportunities, telegram_attempts, call_log, ret,
                               stopped_before_analysis>>
    /\ UNCHANGED <<now, config, sent_news_hashes, history_file, submitted,
                   prev_submitted, file_before_save>>
    /\ UNCHANGED fp_vars

\* The batch the loop is at: items[i:i+batch_size]
current_batch == SubSeq(new_items, batch_i + 1, Min(batch_i + batch_size, Len(new_items)))

\* The new items no batch has held yet.
not_yet_analyzed ==
    IF pc \in {"analyze", "batch"}
    THEN {all_items[new_items[k]] : k \in (batch_i + 1)..Len(new_items)}
    ELSE {}

\* Step 4, entry of analyze_with_gemini: no API key, return []; a prompt
\* entry without its keys or with a template format rejects, raise before
\* any call; else enter the batch loop.
AnalyzeStart ==
    /\ pc = "analyze"
    /\ IF ~config.gemini_api_key
       THEN /\ pc' = "mark"
            /\ UNCHANGED <<run_locals, ret>>
       ELSE IF ~config.prompts_ok
       THEN WorkflowError
       ELSE /\ pc' = "batch"
            /\ UNCHANGED <<run_locals, ret>>
    /\ stopped_before_analysis' =
            IF config.gemini_api_key /\ ~config.prompts_ok THEN not_yet_analyzed ELSE {}
    /\ UNCHANGED <<now, config, sent_news_hashes, history_file, submitted,
                   prev_submitted, file_before_save>>
    /\ UNCHANGED fp_vars

\* One iteration of the batch loop: generate_content on the batch, the
\* response reconciled with the batch, then the next batch or the return.
AnalyzeBatch ==
    /\ pc = "batch"
    /\ \E r \in Responses :
        LET a == analyze_batch(item_state, analyzed_items, current_batch, r)
        IN  /\ item_state' = a.st
            /\ analyzed_items' = a.out
            /\ call_log' = Append(call_log, r)
    /\ submitted' = submitted \cup {all_items[current_batch[k]] : k \in 1..Len(current_batch)}
    /\ batch_i' = batch_i + batch_size
    /\ pc' = IF batch_i + batch_size >= Len(new_items) THEN "mark" ELSE "batch"
    /\ UNCHANGED <<now, config, sent_news_hashes, history_file, all_items, new_items,
                   selected_opportunities, telegram_attempts, ret, prev_submitted,
                   file_before_save, stopped_before_analysis>>
    /\ UNCHANGED fp_vars

\* for item in analyzed_items: self._mark_as_analyzed(item)
MarkAnalyzed ==
    /\ pc = "mark"
    /\ sent_news_hashes' = mark_all(sent_news_hashes, all_items, analyzed_items, now)
    /\ pc' = "select"
    /\ UNCHANGED <<now, config, history_file, run_locals, ret, submitted,
                   prev_submitted, file_before_save, stopped_before_analysis>>
    /\ UNCHANGED fp_vars

\* opportunities = self.filter_opportunities(analyzed_items)
opportunities == filter_opportunities(item_state, analyzed_items)

\* Steps 5 and 6: filter_opportunities, then random.randint(1, 3) and
\* random.sample when there is an opportunity.
SelectOpportunities ==
    /\ pc = "select"
    /\ IF opportunities # << >>
       THEN \E max_posts \in MinPosts..MaxPosts :
            \E s \in Samples(1..Len(opportunities), Min(max_posts, Len(opportunities))) :
                selected_opportunities' = [k \in 1..Len(s) |-> opportunities[s[k]]]
       ELSE selected_opportunities' = << >>
    /\ pc' = "notify"
    /\ UNCHANGED <<now, config, sent_news_hashes, history_file, all_items, item_state,
                   new_items, analyzed_items, batch_i, telegram_attempts, call_log, ret,
                   submitted, prev_submitted, file_before_save, stopped_before_analysis>>
    /\ UNCHANGED fp_vars

\* What one pass of the send loop can come to: the message is posted, or an
\* exception (formatting, requests.post, raise_for_status) is caught and printed.
DeliveryOutcomes(n) == [1..n -> {"sent", "error"}]

\* Mutant of the send loop: the first failed delivery ends the loop.
send_to_telegram_stops_at_error(opps, outcomes) ==
    IF ~config.telegram THEN << >>
    ELSE LET reached == {k \in 1..Len(opps) : \A j \in 1..(k - 1) : outcomes[j] = "sent"}
         IN  [k \in 1..Cardinality(reached) |-> [item |-> opps[k], outcome |-> outcomes[k]]]

\* send_to_telegram: without credentials the opportunities are printed; with
\* them a delivery is tried for each in turn, an error is printed and the loop
\* goes on. The result is the deliveries tried, with how each came out.
send_to_telegram(opps, outcomes) ==
    IF ~config.telegram THEN << >>
    ELSE [k \in 1..Len(opps) |-> [item |-> opps[k], outcome |-> outcomes[k]]]

\* Step 7: self.send_to_telegram(selected_opportunities)
SendToTelegram ==
    /\ pc = "notify"
    /\ \E outcomes \in DeliveryOutcomes(Len(selected_opportunities)) :
        telegram_attempts' = send_to_telegram(selected_opportunities, outcomes)
    /\ pc' = "save"
    /\ UNCHANGED <<now, config, sent_news_hashes, history_file, all_items, item_state,
                   new_items, analyzed_items, batch_i, selected_opportunities, call_log,
                   ret, submitted, prev_submitted, file_before_save,
                   stopped_before_analysis>>
    /\ UNCHANGED fp_vars

\* _save_history, open(self.history_file, 'w'): the open raises and the file
\* is as it was, or the file is truncated to nothing. What send_to_telegram
\* tried is looked at no more once the save has begun.
SaveOpen ==
    /\ pc = "save"
    /\ \/ /\ Return("completed")
          /\ UNCHANGED <<history_file, file_before_save>>
       \/ /\ history_file' = FileCorrupt
          /\ file_before_save' = history_file
          /\ pc' = "saving"
          /\ telegram_attempts' = << >>
          /\ UNCHANGED <<all_items, item_state, new_items, analyzed_items, batch_i,
                         selected_opportunities, call_log, ret>>
    /\ UNCHANGED <<now, config, sent_news_hashes, submitted, prev_submitted,
                   stopped_before_analysis>>
    /\ UNCHANGED fp_vars

\* _save_history, json.dump: the whole dict is written, or the write raises
\* part way and is printed; run_workflow then prints its success and returns.
SaveWrite ==
    /\ pc = "saving"
    /\ \/ history_file' = FileOk(sent_news_hashes)
       \/ history_file' = FileCorrupt
    /\ file_before_save' = FileAbsent
    /\ Return("completed")
    /\ UNCHANGED <<now, config, sent_news_hashes, submitted, prev_submitted,
                   stopped_before_analysis>>
    /\ UNCHANGED fp_vars

\* Time passes while main sleeps between runs (and while the process is down).
Tick ==
    /\ pc \in {"idle", "dead"}
    /\ now < MaxTicks * TickSeconds
    /\ now' = now + TickSeconds
    /\ UNCHANGED <<config, pc, sent_news_hashes, history_file, run_locals, ret,
                   submitted, prev_submitted, file_before_save, stopped_before_analysis>>
    /\ UNCHANGED fp_vars

\* The process is killed (Ctrl+C, power loss): its memory is gone, the file
\* stays as it is.
Crash ==
    /\ pc # "dead"
    /\ pc' = "dead"
    /\ sent_news_hashes' = EmptyDict
    /\ DropLocals
    /\ ret' = "none"
    /\ submitted' = {}
    /\ prev_submitted' = {}
    /\ file_before_save' = FileAbsent
    /\ stopped_before_analysis' =
            IF pc \in {"analyze", "batch"} THEN not_yet_analyzed ELSE stopped_before_analysis
    /\ UNCHANGED <<now, config, history_file>>
    /\ UNCHANGED fp_vars

\* The process is started again: __init__ reads the environment and loads
\* the history.
Restart ==
    /\ pc = "dead"
    /\ config' \in Configs
    /\ sent_news_hashes' = load_history(history_file, now)
    /\ pc' = "idle"
    /\ UNCHANGED <<now, history_file, run_locals, ret, submitted, prev_submitted,
                   file_before_save, stopped_before_analysis>>
    /\ UNCHANGED fp_vars

\* The steps of run_workflow.
RunStep ==
    \/ Collect
    \/ FilterDuplicates
    \/ AnalyzeStart
    \/ AnalyzeBatch
    \/ MarkAnalyzed
    \/ SelectOpportunities
    \/ SendToTelegram
    \/ SaveOpen
    \/ SaveWrite

Next ==
    \/ RunPending
    \/ Collect
    \/ FilterDuplicates
    \/ AnalyzeStart
    \/ AnalyzeBatch
    \/ MarkAnalyzed
    \/ SelectOpportunities
    \/ SendToTelegram
    \/ SaveOpen
    \/ SaveWrite
    \/ Tick
    \/ Crash
    \/ Restart

Spec == Init /\ [][Next]_vars

\* The process when nothing kills it, with the clock left out: main's loop
\* calls run_workflow again and again (schedule.every(1).hours), and a run
\* that has begun goes on to its return.
LiveNext ==
    \/ RunPending
    \/ RunStep

LiveSpec == Init /\ [][LiveNext]_vars /\ WF_vars(RunPending) /\ WF_vars(RunStep)

\* ------------------------------------------------- the fingerprint functions

FpTitles == {"T1", "T2"}

\* A title and a link, as _generate_news_hash and _generate_url_hash get them.
FpInputs == [title : FpTitles, url : Urls]

\* What the functions give for one input.
fingerprints(in) ==
    LET item == Item("CoinDesk", in.title, UrlString(in.url))
    IN  [link |-> item.link,
         content |-> news_content(item),
         news_hash |-> generate_news_hash(item),
         url_key |-> IF item.link = << >> THEN HashNone ELSE normalize_url(item.link),
         url_hash |-> generate_url_hash(item)]

\* Two inputs are drawn; nothing else of the program is running.
FpInit ==
    /\ fp_in \in FpInputs \X FpInputs
    /\ fp_out = << >>
    /\ pc = "fingerprint"
    /\ now = 0
    /\ config = [gemini_api_key |-> TRUE, telegram |-> TRUE, prompts_ok |-> TRUE]
    /\ history_file = FileAbsent
    /\ sent_news_hashes = EmptyDict
    /\ all_items = << >>
    /\ item_state = << >>
    /\ new_items = << >>
    /\ analyzed_items = << >>
    /\ batch_i = 0
    /\ selected_opportunities = << >>
    /\ telegram_attempts = << >>
    /\ ret = "none"
    /\ submitted = {}
    /\ prev_submitted = {}
    /\ file_before_save = FileAbsent
    /\ call_log = << >>
    /\ stopped_before_analysis = {}

\* The functions are applied to both inputs.
Fingerprint ==
    /\ pc = "fingerprint"
    /\ fp_out' = [k \in 1..2 |-> fingerprints(fp_in[k])]
    /\ pc' = "fingerprinted"
    /\ UNCHANGED <<now, config, sent_news_hashes, history_file, run_locals, ret,
                   submitted, prev_submitted, file_before_save, stopped_before_analysis,
                   fp_in>>

FpNext == Fingerprint

FpSpec == FpInit /\ [][FpNext]_vars

\* ------------------------------------------------------------------- claims

\* The positions of a sequence as a set, and the set of its elements.
Range(q) == {q[k] : k \in 1..Len(q)}

\* The step is a filter_duplicates that returned (it did not raise).
FilterDuplicatesReturned ==
    /\ pc = "dedup"
    /\ \/ pc' = "analyze"
       \/ pc' = "idle" /\ ret' = "all_duplicates"

\* k is a key of h whose entry is younger than the retention window at t.
Unexpired(h, k, t) == k \in DOMAIN h /\ t - h[k] < RetentionSeconds

\* The item has a fingerprint that is an unexpired key of h at t.
SeenUnexpired(item, h, t) ==
    \/ Unexpired(h, generate_news_hash(item), t)
    \/ /\ item.link # << >>
       /\ Unexpired(h, generate_url_hash(item), t)

\* C1: whenever filter_duplicates returns, the items it keeps as new are
\* exactly the items with no fingerprint that is an unexpired key of the
\* history (an item is dropped if and only if its title|link fingerprint or
\* its normalized-link fingerprint is a key less than 604800 s old).
C1_DropIffUnexpired ==
    [][FilterDuplicatesReturned =>
        Range(new_items') =
            {i \in 1..Len(all_items) : ~SeenUnexpired(all_items[i], sent_news_hashes, now)}]_vars

\* What filter_duplicates does instead: an item is dropped if and only if a
\* fingerprint of it is a key of the in-memory history, whatever its age.
FilterDuplicatesDropsKnownKeys ==
    [][FilterDuplicatesReturned =>
        Range(new_items') =
            {i \in 1..Len(all_items) :
                /\ generate_news_hash(all_items[i]) \notin DOMAIN sent_news_hashes
                /\ \/ all_items[i].link = << >>
                   \/ generate_url_hash(all_items[i]) \notin DOMAIN sent_news_hashes}]_vars

\* Two items have a fingerprint in common: the same title and link, or links
\* that normalize to the same URL.
SameFingerprint(x, y) ==
    \/ generate_news_hash(x) = generate_news_hash(y)
    \/ /\ x.link # << >>
       /\ y.link # << >>
       /\ generate_url_hash(x) = generate_url_hash(y)

\* C2: no item given to the classifier in a run has a fingerprint (title and
\* link, or normalized URL) in common with an item given to the classifier in
\* the run before it of the same process.
C2_AtMostOnceReanalysis ==
    \A x \in submitted : \A y \in prev_submitted : ~SameFingerprint(x, y)

\* C2 witness: ItemA went to the classifier in the last run; this run
\* collected it again together with its syndicated copy ItemA2 (other title,
\* same normalized link), filtered both out and analysed the other items.
C2_Witness ==
    /\ pc = "mark"
    /\ ItemA \in prev_submitted
    /\ {ItemA, ItemA2} \subseteq Range(all_items)
    /\ submitted # {}
    /\ {ItemA, ItemA2} \cap submitted = {}

\* The number of times x occurs in the sequence q.
Count(q, x) == Cardinality({k \in 1..Len(q) : q[k] = x})

\* C3: when analyze_with_gemini returns, its result holds every input item
\* exactly once, whatever the classifier gave for each batch and also when
\* no classifier credential is set.
C3_EveryItemExactlyOnce ==
    pc = "mark" => \A i \in Range(new_items) : Count(analyzed_items, i) = 1

\* C4: when a _save_history ends, by returning or by the process being
\* killed or the write failing part way, a history file that was valid before
\* it still holds a complete mapping (the old one or the new one), so that
\* _load_history recovers every unexpired entry persisted before the save.
C4_SaveKeepsValidFile ==
    [][(pc = "saving" /\ pc' # "saving" /\ file_before_save.state = "ok") =>
        \A k \in DOMAIN cleaned_history(file_before_save.data, now) :
            k \in DOMAIN load_history(history_file', now)]_vars

\* C5: once the analysed items of a run are marked, every item that was given
\* to analyze_with_gemini has its title+link fingerprint in the history, and
\* its URL fingerprint when its link is not empty, with the time of marking.
C5_EveryGivenItemMarked ==
    pc = "select" =>
        \A i \in Range(new_items) :
            /\ generate_news_hash(all_items[i]) \in DOMAIN sent_news_hashes
            /\ sent_news_hashes[generate_news_hash(all_items[i])] = now
            /\ all_items[i].link # << >> =>
                /\ generate_url_hash(all_items[i]) \in DOMAIN sent_news_hashes
                /\ sent_news_hashes[generate_url_hash(all_items[i])] = now

\* The fingerprints _mark_as_analyzed writes for the items at positions idxs.
FingerprintsOf(items, idxs) ==
    {generate_news_hash(items[i]) : i \in idxs}
        \cup {generate_url_hash(items[i]) : i \in {j \in idxs : items[j].link # << >>}}

\* The keys that are new in h2 or have another timestamp there than in h1.
Written(h1, h2) == {k \in DOMAIN h2 : k \notin DOMAIN h1 \/ h1[k] # h2[k]}

\* C6: filter_duplicates leaves the history as it is; while the process
\* lives, a key is written to the history only by the marking loop and only
\* for an item analyze_with_gemini has returned, and no key is removed; and
\* an item that a run had found new when it stopped before analysing it is
\* found new again by the next filter_duplicates that is given it.
C6_MarkOnlyAfterAnalysis ==
    [][/\ (pc = "dedup" /\ pc' # "dead") => sent_news_hashes' = sent_news_hashes
       /\ (pc' # "dead" /\ pc # "dead") =>
            /\ DOMAIN sent_news_hashes \subseteq DOMAIN sent_news_hashes'
            /\ Written(sent_news_hashes, sent_news_hashes') # {} =>
                /\ pc = "mark"
                /\ Written(sent_news_hashes, sent_news_hashes')
                        \subseteq FingerprintsOf(all_items, Range(analyzed_items))
       /\ FilterDuplicatesReturned =>
            \A i \in 1..Len(all_items) :
                all_items[i] \in stopped_before_analysis => i \in Range(new_items')]_vars

\* C6 witness: the run before stopped (an error or a kill) with items it had
\* found new and not analysed; filter_duplicates of this run was given one of
\* them beside an item the history knows, and kept the first and not the other.
C6_Witness ==
    /\ pc = "analyze"
    /\ \E i \in Range(new_items) : all_items[i] \in stopped_before_analysis
    /\ Len(new_items) < Len(all_items)

\* C7: _load_history never fails: the process comes up from every restart;
\* a missing or unloadable file gives the empty history, and a loadable one
\* gives exactly its entries less than 604800 s old at load time, so no entry
\* 7 days old or older is a key of the history after the load.
C7_LoadHistory ==
    [][(pc = "dead" /\ pc' # "dead") =>
        /\ pc' = "idle"
        /\ history_file.state \in {"absent", "corrupt"} => DOMAIN sent_news_hashes' = {}
        /\ history_file.state = "ok" =>
            /\ DOMAIN sent_news_hashes' =
                    {k \in DOMAIN history_file.data : now - history_file.data[k] < 604800}
            /\ \A k \in DOMAIN sent_news_hashes' :
                    sent_news_hashes'[k] = history_file.data[k]
        /\ \A k \in DOMAIN sent_news_hashes' : now - sent_news_hashes'[k] < 604800]_vars

\* C7 witness: after a load, the file holds an entry 7 days old or older that
\* the history does not have, and a younger one that it has.
C7_Witness ==
    /\ pc = "idle"
    /\ history_file.state = "ok"
    /\ \E k \in DOMAIN history_file.data :
        /\ now - history_file.data[k] >= 604800
        /\ k \notin DOMAIN sent_news_hashes
    /\ \E k \in DOMAIN history_file.data :
        /\ now - history_file.data[k] < 604800
        /\ k \in DOMAIN sent_news_hashes

\* The analysed items that filter_opportunities takes for opportunities.
Flagged == {i \in Range(analyzed_items) : Truthy(item_state[i].is_opportunity)}

\* C8: what run_workflow hands to send_to_telegram has at most 3 items and at
\* most as many as there are flagged items, holds flagged items only and none
\* twice, is empty when no item is flagged and not empty when one is.
C8_SelectionBound ==
    pc = "notify" =>
        /\ Len(selected_opportunities) <= 3
        /\ Len(selected_opportunities) <= Cardinality(Flagged)
        /\ Range(selected_opportunities) \subseteq Flagged
        /\ Cardinality(Range(selected_opportunities)) = Len(selected_opportunities)
        /\ Flagged = {} => selected_opportunities = << >>
        /\ Flagged # {} => selected_opportunities # << >>

\* C8 witness: more than 3 items are flagged and 3 of them are handed over.
C8_Witness ==
    /\ pc = "notify"
    /\ Cardinality(Flagged) > 3
    /\ Len(selected_opportunities) = 3

\* C9: an error raised inside a run never ends the process; run_workflow
\* returns to main's loop, which then calls the next run.
C9_ErrorsDoNotStopTheLoop ==
    /\ [](pc # "dead")
    /\ (pc = "idle" /\ ret = "error") ~> (pc = "collect")

\* C9 witness: a run ended with an error and the next run has been called.
C9_Witness ==
    /\ pc = "dedup"
    /\ ret = "error"

\* The number of batches of n items.
Batches(n) == (n + batch_size - 1) \div batch_size

\* C10: when the classifier call for a batch fails, every item of the batch
\* gets a null verdict and is_opportunity False and is returned, the item
\* states and results of earlier batches stay as they were, and the loop goes
\* on to the next batch; every batch of a run is submitted, one call each.
C10_FailedCallIsolated ==
    /\ [][(pc = "batch" /\ pc' \in {"batch", "mark"} /\ call_log'[Len(call_log')].kind = "raise") =>
            /\ \A i \in Range(current_batch) :
                /\ item_state'[i] = Failed
                /\ i \in Range(analyzed_items')
            /\ \A i \in (1..Len(all_items)) \ Range(current_batch) :
                item_state'[i] = item_state[i]
            /\ SubSeq(analyzed_items', 1, Len(analyzed_items)) = analyzed_items
            /\ batch_i' = batch_i + 5
            /\ pc' = IF batch_i + 5 < Len(new_items) THEN "batch" ELSE "mark"]_vars
    /\ [](pc = "mark" /\ config.gemini_api_key =>
            /\ Len(call_log) = Batches(Len(new_items))
            /\ submitted = {all_items[i] : i \in Range(new_items)})

\* C10 witness: the call for the first of two batches failed, the second was
\* answered, and an item of the second batch has its verdict.
C10_Witness ==
    /\ pc = "mark"
    /\ Len(call_log) = 2
    /\ call_log[1].kind = "raise"
    /\ call_log[2].kind = "json"
    /\ \E i \in Range(new_items) : item_state[i].ai_analysis.kind = "dict"
    /\ \E i \in Range(new_items) : item_state[i] = Failed


\* C11: with the notifier's credentials set, send_to_telegram tries a delivery
\* for every selected opportunity, in the order of the selection, whatever the
\* outcome of the deliveries before it; and run_workflow goes on from the
\* notification to _save_history.
C11_EveryOpportunityTried ==
    /\ [][(pc = "notify" /\ pc' # "dead") =>
            /\ pc' = "save"
            /\ config.telegram =>
                /\ Len(telegram_attempts') = Len(selected_opportunities)
                /\ \A k \in 1..Len(selected_opportunities) :
                        telegram_attempts'[k].item = selected_opportunities[k]]_vars
    /\ [][(pc = "save" /\ pc' # "dead") =>
            \/ pc' = "saving" /\ history_file' = FileCorrupt
            \/ pc' = "idle" /\ ret' = "completed"]_vars

\* Three deliveries were tried, the first failed and the last was sent.
C11_Witness ==
    /\ pc = "save"
    /\ config.telegram
    /\ Len(selected_opportunities) = 3
    /\ Len(telegram_attempts) = 3
    /\ telegram_attempts[1].outcome = "error"
    /\ telegram_attempts[3].outcome = "sent"


\* The two written links have the same scheme, host and path: they differ at
\* most in trailing slashes, query and fragment.
SameSchemeHostPath(u, v) == u.scheme = v.scheme /\ u.host = v.host /\ u.path = v.path

\* C12: the fingerprints are functions of (title, link), and the URL key does
\* not see the query, the fragment or trailing slashes: equal (title, link)
\* give equal content fingerprints; a change of the title only, or of the
\* link only, changes the hashed content; two links with the same scheme, host
\* and path give equal URL keys, two that differ in one of these give
\* different ones; an empty link gives no URL fingerprint.
C12_Fingerprints ==
    pc = "fingerprinted" =>
        LET a == fp_in[1]
            b == fp_in[2]
            fa == fp_out[1]
            fb == fp_out[2]
        IN  /\ (a.title = b.title /\ fa.link = fb.link) =>
                    (fa.content = fb.content /\ fa.news_hash = fb.news_hash)
            /\ ((a.title # b.title) /\ fa.link = fb.link) => fa.content # fb.content
            /\ ((a.title = b.title) /\ fa.link # fb.link) => fa.content # fb.content
            /\ (fa.link # << >> /\ fb.link # << >>) =>
                    IF SameSchemeHostPath(a.url, b.url)
                    THEN fa.url_key = fb.url_key /\ fa.url_hash = fb.url_hash
                    ELSE fa.url_key # fb.url_key /\ fa.url_hash # fb.url_hash
            /\ fa.link = << >> => fa.url_hash = HashNone
            /\ fa.link # << >> => fa.url_hash # HashNone

\* The fingerprints of https://x.com/a/?x=1#y and of https://x.com/a were
\* taken, under different titles.
C12_Witness ==
    /\ pc = "fingerprinted"
    /\ fp_out[1].link = <<Host, "/a", Slash, QueryTok, FragTok>>
    /\ fp_out[2].link = LinkA
    /\ fp_in[1].title # fp_in[2].title
    /\ fp_out[1].url_hash = fp_out[2].url_hash
    /\ fp_out[1].news_hash # fp_out[2].news_hash


\* The response of the call that held the p-th new item, and the place of the
\* item in that call's batch.
BatchResponse(p) == call_log[((p - 1) \div batch_size) + 1]
BatchPlace(p) == ((p - 1) % batch_size) + 1

\* The p-th new item's verdict as parsed from the response of its batch:
\* "none" when the response was no JSON object or has no key for the item.
ParsedVerdict(p) ==
    IF BatchResponse(p).kind = "json" /\ BatchPlace(p) \in DOMAIN BatchResponse(p).analysis
    THEN BatchResponse(p).analysis[BatchPlace(p)]
    ELSE Verdict("none", "absent")

\* analyze_with_gemini has returned from its batch loop.
AnalysisReturned == pc \in {"mark", "select", "notify", "save"} /\ config.gemini_api_key

\* The response is a JSON object whose values are all objects (the matching
\* loop runs to its end).
ObjectOfObjects(r) ==
    r.kind = "json" /\ \A k \in DOMAIN r.analysis : r.analysis[k].kind = "dict"

\* C13: an item is in the result of filter_opportunities exactly when the
\* verdict parsed for its place in its batch has is_opportunity equal to the
\* boolean true; an absent, false or non-boolean value (the string "false")
\* never makes it an opportunity.  Stated for the batches whose response is
\* an object of objects.
C13_OpportunityIffBooleanTrue ==
    (pc = "select" /\ config.gemini_api_key) =>
        \A p \in 1..Len(new_items) :
            ObjectOfObjects(BatchResponse(p)) =>
                ((new_items[p] \in Range(opportunities))
                    <=> (ParsedVerdict(p).is_opportunity = PyTrue))

\* The items handed to the notifier.
Notified == {telegram_attempts[k].item : k \in 1..Len(telegram_attempts)}

\* C14: an item whose batch response was no JSON has a degraded verdict, its
\* explanation at most 200 characters of the response; an item whose item_k
\* key is missing from an object response has a null verdict; both have
\* is_opportunity False and are not selected or handed to the notifier in
\* the run; and the batch loop goes on or returns, no error leaves it.
C14_ParseFailureDegrades ==
    /\ [](AnalysisReturned =>
            \A p \in 1..Len(new_items) :
                LET st == item_state[new_items[p]]
                    r == BatchResponse(p)
                IN  /\ r.kind = "text" =>
                        /\ st.ai_analysis.kind = "degraded"
                        /\ st.ai_analysis.explanation <= ExplanationLimit
                        /\ st.ai_analysis.explanation <= r.len
                    /\ (r.kind = "json" /\ BatchPlace(p) \notin DOMAIN r.analysis) =>
                        st.ai_analysis.kind = "none"
                    /\ (r.kind = "text" \/ ParsedVerdict(p).kind = "none") =>
                        /\ st.is_opportunity = PyFalse
                        /\ new_items[p] \notin Range(selected_opportunities)
                        /\ new_items[p] \notin Notified)
    /\ [][(pc = "batch" /\ pc' # "dead") =>
            (pc' \in {"batch", "mark"} /\ ret' = ret /\ Len(call_log') = Len(call_log) + 1)]_vars

\* A first batch answered by 250 characters that are no JSON and a second by
\* an object with item_1 only; the run has gone on to its notification.
C14_Witness ==
    /\ pc = "save"
    /\ Len(new_items) = 7
    /\ call_log = <<Response("text", 250, << >>), Response("json", 0, <<VFalse>>)>>
    /\ item_state[new_items[1]].ai_analysis = Analysis("degraded", ExplanationLimit)
    /\ item_state[new_items[7]] = Failed


\* The step is the return of a run that no error ended.
RunReturns == pc \notin {"idle", "dead"} /\ pc' = "idle" /\ ret' # "error"

\* The places a run goes through, in the order of run_workflow: each step of
\* a living process leads from a place to the next one, or to the return.
PipelineOrder ==
    /\ pc = "idle" => pc' = "collect"
    /\ pc = "collect" => pc' \in {"dedup", "idle"}
    /\ pc = "dedup" => pc' \in {"analyze", "idle"}
    /\ pc = "analyze" => pc' \in {"batch", "mark", "idle"}
    /\ pc = "batch" => pc' \in {"batch", "mark"}
    /\ pc = "mark" => pc' = "select"
    /\ pc = "select" => pc' = "notify"
    /\ pc = "notify" => pc' = "save"
    /\ pc = "save" => pc' \in {"saving", "idle"}
    /\ pc = "saving" => pc' = "idle"

\* The history is read from the file at the start of the process only: in a
\* living process it changes by the marking loop alone, which adds to it.
NeverReloaded ==
    (pc # "dead" /\ pc' # "dead" /\ sent_news_hashes' # sent_news_hashes) =>
        /\ pc = "mark"
        /\ \A k \in DOMAIN sent_news_hashes : k \in DOMAIN sent_news_hashes'

\* The file is written by _save_history only, after the notification.
PersistedAfterNotificationOnly ==
    history_file' # history_file => pc \in {"save", "saving"}

\* C15: every run goes through Collect, Merge, Dedup-filter, Analyze and mark,
\* Select, Notify, Persist in this order; the history is loaded at process
\* start and never reloaded; every run persists it, once, as its last step
\* after the notification; it is never persisted while items are analysed or
\* marked.
C15_LinearPipeline ==
    [][/\ (pc # "dead" /\ pc' # "dead" /\ pc' # pc) => PipelineOrder
       /\ NeverReloaded
       /\ PersistedAfterNotificationOnly
       /\ RunReturns => pc \in {"save", "saving"}]_vars

\* Every fingerprint of the in-memory history is in the history file.
Persisted(h, f) == \A k \in DOMAIN h : f.state = "ok" /\ k \in DOMAIN f.data

\* C16: marks do not stay unpersisted: a run that returns because it collected
\* no item, or duplicates only, leaves every fingerprint of the in-memory
\* history in the history file, also those a run before it marked and failed
\* to save.
C16_PendingMarksPersisted ==
    [][(pc \in {"collect", "dedup"} /\ pc' = "idle" /\ ret' # "error") =>
            Persisted(sent_news_hashes', history_file')]_vars

\* C17: no two items of the list filter_duplicates returns, which is the list
\* given to analyze_with_gemini, share a content or a URL fingerprint.
C17_NoDuplicatesWithinRun ==
    pc = "analyze" =>
        \A p, q \in 1..Len(new_items) :
            p # q => ~SameFingerprint(all_items[new_items[p]], all_items[new_items[q]])

====
